---- MODULE Spec2Model ----
(***************************************************************************)
(* Transcript lifecycle and time-synchronisation of the player page:       *)
(* the word locator of TranscriptView, the local status mirror, and the    *)
(* poller of PlayerPage (loadTranscript, startPolling, loadAudioFile,      *)
(* handleRetryTranscription, unmount cleanup).                             *)
(* Further: the view's handlers, the search page's performSearch, the     *)
(* home page's handleFilesSelected, authService.getCurrentUser with the    *)
(* provider's logout, and the response interceptor of the API client.      *)
(* Times are integers (a fixed-point reading of the seconds of the code).  *)
(***************************************************************************)
EXTENDS Integers, Sequences, FiniteSets, TLC

\* ------------------------------------------------------------------ bounds
MaxLen == 3        \* longest token sequence drawn for the locator
MaxTime == 2       \* largest start/end/playback time drawn
MaxReq == 4        \* status fetches issued by one page instance
MaxRetry == 2      \* clicks on the retry button by one page instance
MirrorReq == 3     \* status fetches of a page whose view is used as well
MirrorRetry == 1   \* retry clicks of a page whose view is used as well
MaxWords == 25     \* longest transcript drawn for the search scan
MaxFiles == 2      \* audio files listed on the search page
MaxBatches == 2    \* upload batches started on the home page
MaxBatchFiles == 2 \* files in one upload batch
MaxCalls == 2      \* calls of authService.getCurrentUser
MaxClock == 2      \* steps of the clock, each half the cache duration
MaxLogouts == 1    \* logouts
MaxApiCalls == 2   \* requests made through the API client
MaxRefresh == 2    \* refreshes on behalf of one request

\* --------------------------------------------------------------- variables
VARIABLES
  mounted,           \* the PlayerPage component is mounted
  loadPc,            \* position of loadAudioFile
  audio,             \* audio !== null
  loadingAudio,      \* loadingAudio
  error,             \* error !== null
  transcriptWords,   \* transcriptWords
  transcriptStatus,  \* transcriptStatus
  currentTime,       \* currentTime
  pollIntervalRef,   \* pollIntervalRef.current (Null or a timer id)
  timers,            \* interval timers the runtime still fires
  nextTimer,         \* ids handed out by setInterval
  reqs,              \* getTranscript requests in flight
  nextReq,           \* number of getTranscript requests issued so far
  retries,           \* retryTranscription requests in flight
  retryClicks,       \* number of retry clicks so far
  serverStatus,      \* status held by the transcription service
  serverWords,       \* transcript held by the transcription service
  autoScroll,        \* TranscriptView's autoScroll
  duration,          \* the playback engine's getDuration() (0 until ready)
  enginePos,         \* the playback engine's position
  scrollPending,     \* a scrollIntoView whose scroll event has not fired yet
  seekTarget,        \* the time of the word clicked last (history)
  audioFiles,        \* SearchPage: audioFiles (id and listed status)
  serverFiles,       \* what getTranscript answers for each listed file
  searchQuery,       \* SearchPage: searchQuery
  searchPc,          \* position of performSearch
  searchIdx,         \* performSearch: files of completedFiles done so far
  results,           \* performSearch: its local results array
  searchResults,     \* SearchPage: searchResults
  searching,         \* SearchPage: searching
  hasSearched,       \* SearchPage: hasSearched
  failedFetches,     \* ids whose fetch failed in this search (history)
  scanLog,           \* tested indices and matches of the last scan (history)
  uploadingFiles,    \* Home: uploadingFiles
  isUploading,       \* Home: isUploading
  libraryFiles,      \* Home: audioFiles, the library list
  notification,      \* Home: notification
  uploads,           \* uploadAudio requests in flight
  clearTimers,       \* pending timeouts that empty uploadingFiles
  notifyTimers,      \* pending timeouts that clear the notification
  nextBatch,         \* number of batches selected so far
  homeEvent,         \* the Home handler step taken last (history)
  currentUserCache,  \* authService: currentUserCache
  currentUserPromise, \* authService: currentUserPromise (Null or its id)
  isRefreshing,      \* authService: isRefreshing
  now,               \* Date.now()
  flights,           \* the async bodies of getCurrentUser still running
  authReqs,          \* /auth requests in flight
  nextAuthReq,       \* number of /auth requests issued so far
  nextPromise,       \* number of promises getCurrentUser created so far
  callers,           \* the calls of getCurrentUser and what they got
  settled,           \* the result each promise settled with (history)
  user,              \* AuthProvider: user
  logoutPc,          \* position of AuthProvider's logout
  logoutsDone,       \* number of logouts completed
  sessionUser,       \* the user of the session the auth service holds
  accessValid,       \* the access token of the session has not expired
  apiCalls,          \* the requests made through api.ts's axiosInstance
  redirected,        \* window.location.href was set to /login
  lastEvent,         \* the handler step taken last (history)
  maxApplied         \* largest id of a request whose observation was applied

vars == <<mounted, loadPc, audio, loadingAudio, error, transcriptWords,
          transcriptStatus, currentTime, pollIntervalRef, timers, nextTimer,
          reqs, nextReq, retries, retryClicks, serverStatus, serverWords,
          autoScroll, duration, enginePos, scrollPending, seekTarget,
          audioFiles, serverFiles, searchQuery, searchPc, searchIdx, results,
          searchResults, searching, hasSearched, failedFetches, scanLog,
          uploadingFiles, isUploading, libraryFiles, notification, uploads,
          clearTimers, notifyTimers, nextBatch, homeEvent,
          currentUserCache, currentUserPromise, isRefreshing, now, flights,
          authReqs, nextAuthReq, nextPromise, callers, settled, user,
          logoutPc, logoutsDone, sessionUser, accessValid,
          apiCalls, redirected,
          lastEvent, maxApplied>>

\* ------------------------------------------------------------------ values
Null == 0
None == -1
Status == {"uploaded", "processing", "completed", "failed"}
Terminal == {"completed", "failed"}

Times == 0..MaxTime
\* The length of the decoded audio: past every time a token carries.
AudioDuration == MaxTime + 1
PlayTimes == (-1)..(MaxTime + 1)
TranscriptWord == [start : Times, end : Times]

SeqsUpTo(S, n) == UNION {[1..k -> S] : k \in 0..n}
WordSeqs == SeqsUpTo(TranscriptWord, MaxLen)

\* ------------------------------------------------- TranscriptView: locator
ActivePredicateStrict(words, time, i) ==
  /\ time > words[i + 1].start
  /\ (i = Len(words) - 1 \/ time < words[i + 2].start)

ActivePredicateNoLowerBound(words, time, i) ==
  i = Len(words) - 1 \/ time < words[i + 2].start

ActivePredicateInclusive(words, time, i) ==
  /\ time >= words[i + 1].start
  /\ (i = Len(words) - 1 \/ time <= words[i + 2].start)

\* The predicate handed to words.findIndex; i is the 0-based index.
ActivePredicate(words, time, i) ==
  /\ time >= words[i + 1].start
  /\ (i = Len(words) - 1 \/ time < words[i + 2].start)

FindIndexClamped(words, time) ==
  LET hits == {i \in 0..(Len(words) - 1) : ActivePredicate(words, time, i)}
  IN  IF hits = {} THEN 0
      ELSE CHOOSE i \in hits : \A j \in hits : i <= j

\* Array.prototype.findIndex: the first index that satisfies, -1 if none.
FindIndex(words, time) ==
  LET hits == {i \in 0..(Len(words) - 1) : ActivePredicate(words, time, i)}
  IN  IF hits = {} THEN None
      ELSE CHOOSE i \in hits : \A j \in hits : i <= j

activeWordIndex == FindIndex(transcriptWords, currentTime)

\* ------------------------------------------------ TranscriptView: panels
\* PlayerPage renders TranscriptView only past its own early returns.
PageShown == mounted /\ ~loadingAudio /\ ~error /\ audio

ViewPanelNoProcessingBranch ==
  IF transcriptStatus = "failed" THEN "failed"
  ELSE IF transcriptStatus = "uploaded" \/ Len(transcriptWords) = 0
       THEN "preparing"
  ELSE "words"

\* The branch of TranscriptView's render that is taken.
ViewPanel ==
  IF transcriptStatus = "processing" THEN "transcribing"
  ELSE IF transcriptStatus = "failed" THEN "failed"
  ELSE IF transcriptStatus = "uploaded" \/ Len(transcriptWords) = 0
       THEN "preparing"
  ELSE "words"

TokensRendered == PageShown /\ ViewPanel = "words"
RetryButtonShown == PageShown /\ ViewPanel = "failed"

\* --------------------------------------------------- transcription service
W(s, e) == [start |-> s, end |-> e]
ServerTranscripts == {<<>>, <<W(0, 1), W(1, 2)>>}

NoAnswer ==
  [kind |-> "none", status |-> "uploaded", transcript |-> FALSE, words |-> <<>>]
\* getTranscript's response body: the transcript is present only when completed.
Answer ==
  [kind |-> "ok", status |-> serverStatus,
   transcript |-> (serverStatus = "completed"), words |-> serverWords]

\* History of the handler that ran last: which one, the request whose
\* response it consumed (0: none) and the status it observed, whether the
\* timer of pollIntervalRef was still active when the handler ran.
Event(k, req, obs, active) ==
  [kind |-> k, req |-> req, obs |-> obs, active |-> active]
Other(k) == Event("other", 0, "none", FALSE)

\* React drops a state update of an unmounted component.
SetState(new, old) == IF mounted THEN new ELSE old

\* ------------------------------------------------------------- SearchPage
NoScan == [matches |-> <<>>, tested |-> <<>>]

searchVars == <<audioFiles, serverFiles, searchQuery, searchPc, searchIdx,
                results, searchResults, searching, hasSearched, failedFetches,
                scanLog>>

\* The search page is not in use.
SearchIdle ==
  /\ audioFiles = <<>>
  /\ serverFiles = <<>>
  /\ searchQuery = <<>>
  /\ searchPc = "idle"
  /\ searchIdx = 0
  /\ results = <<>>
  /\ searchResults = <<>>
  /\ searching = FALSE
  /\ hasSearched = FALSE
  /\ failedFetches = {}
  /\ scanLog = NoScan

\* ------------------------------------------------------------------ Home
homeVars == <<uploadingFiles, isUploading, libraryFiles, notification,
              uploads, clearTimers, notifyTimers, nextBatch, homeEvent>>

NoNotification == [type |-> "none", message |-> "none"]
HomeEvent(k, b, f) == [kind |-> k, batch |-> b, file |-> f]

\* The home page is not in use.
HomeIdle ==
  /\ uploadingFiles = <<>>
  /\ isUploading = FALSE
  /\ libraryFiles = <<>>
  /\ notification = NoNotification
  /\ uploads = {}
  /\ clearTimers = {}
  /\ notifyTimers = 0
  /\ nextBatch = 0
  /\ homeEvent = HomeEvent("none", 0, 0)

\* ----------------------------------------------------------- authService
authVars == <<currentUserCache, currentUserPromise, isRefreshing, now,
              flights, authReqs, nextAuthReq, nextPromise, callers, settled,
              user, logoutPc, logoutsDone, sessionUser, accessValid>>

NoCache == [data |-> "none", timestamp |-> 0, epoch |-> 0]
NotCalled == [pc |-> "idle", promise |-> Null, result |-> "none"]

\* The module as loaded and the provider as mounted, nothing called yet.
AuthLoaded ==
  /\ currentUserCache = NoCache
  /\ currentUserPromise = Null
  /\ isRefreshing = FALSE
  /\ now = 0
  /\ flights = {}
  /\ authReqs = {}
  /\ nextAuthReq = 0
  /\ nextPromise = 0
  /\ callers = [c \in 1..MaxCalls |-> NotCalled]
  /\ settled = [q \in 1..MaxCalls |-> "none"]
  /\ user = "none"
  /\ logoutPc = "idle"
  /\ logoutsDone = 0

\* The authentication code is not in use and nobody is signed in.
AuthIdle ==
  /\ AuthLoaded
  /\ sessionUser = "none"
  /\ accessValid = FALSE

\* ----------------------------------------------------- api.ts: the client
apiVars == <<apiCalls, redirected>>

NoCall == [pc |-> "idle", retry |-> FALSE, ans |-> "none", sends |-> 0,
           refreshes |-> 0, refreshFailed |-> FALSE]

\* No request has been made through the client.
ApiIdle ==
  /\ apiCalls = [c \in 1..MaxApiCalls |-> NoCall]
  /\ redirected = FALSE

\* The state of the pages other than the player page.
offPlayerVars == <<searchVars, homeVars, authVars, apiVars>>

\* ------------------------------------------------------------------- Init
\* The page has mounted for an authenticated user; the effect that calls
\* loadAudioFile has not run yet.  The item may be anywhere in its lifecycle.
Init ==
  /\ mounted = TRUE
  /\ loadPc = "start"
  /\ audio = FALSE
  /\ loadingAudio = TRUE
  /\ error = FALSE
  /\ transcriptWords = <<>>
  /\ transcriptStatus = "uploaded"
  /\ currentTime = 0
  /\ pollIntervalRef = Null
  /\ timers = {}
  /\ nextTimer = 0
  /\ reqs = {}
  /\ nextReq = 0
  /\ retries = [pending |-> 0, accepted |-> 0]
  /\ retryClicks = 0
  /\ serverStatus \in Status
  /\ serverWords \in (IF serverStatus = "completed" THEN ServerTranscripts
                      ELSE {<<>>})
  /\ autoScroll = TRUE
  /\ duration = 0
  /\ enginePos = 0
  /\ scrollPending = FALSE
  /\ seekTarget = None
  /\ SearchIdle
  /\ HomeIdle
  /\ AuthIdle
  /\ ApiIdle
  /\ lastEvent = Other("init")
  /\ maxApplied = 0

pageVars == <<mounted, audio, loadingAudio, error, currentTime>>
localVars == <<transcriptWords, transcriptStatus>>
pollVars == <<pollIntervalRef, timers, nextTimer>>
retryVars == <<retries, retryClicks>>
serverVars == <<serverStatus, serverWords>>
appliedVars == <<maxApplied>>
viewVars == <<autoScroll, duration, enginePos, scrollPending, seekTarget>>


\* ------------------------------------------------------------ loadTranscript
\* transcriptAPI.getTranscript(audioId) is sent; src tells who awaits it and
\* timer which interval's callback sent it (Null: loadAudioFile).
IssueRequest(src, timer) ==
  /\ nextReq' = nextReq + 1
  /\ reqs' = reqs \cup {[id |-> nextReq + 1, src |-> src, timer |-> timer,
                         ans |-> NoAnswer]}

\* The body of loadTranscript's try block once the response r.ans is there.
ApplyObservation(r) ==
  /\ transcriptStatus' = SetState(r.ans.status, transcriptStatus)
  /\ transcriptWords' = IF r.ans.transcript
                        THEN SetState(r.ans.words, transcriptWords)
                        ELSE transcriptWords
  /\ maxApplied' = IF r.id > maxApplied THEN r.id ELSE maxApplied

\* -------------------------------------------------------------- startPolling
ClearedTimersNoClear == timers

\* if (pollIntervalRef.current) clearInterval(pollIntervalRef.current)
ClearedTimers ==
  IF pollIntervalRef # Null THEN timers \ {pollIntervalRef} ELSE timers

startPolling ==
  /\ nextTimer' = nextTimer + 1
  /\ timers' = ClearedTimers \cup {nextTimer + 1}
  /\ pollIntervalRef' = nextTimer + 1

StoppedTimersNoClear == timers

\* The interval callback after its await: clearInterval of the current ref.
StoppedTimers ==
  IF pollIntervalRef # Null THEN timers \ {pollIntervalRef} ELSE timers

StopUnlessProcessing(status) ==
  IF status \notin {"uploaded", "processing"}
  THEN /\ timers' = StoppedTimers
       /\ pollIntervalRef' = Null
       /\ nextTimer' = nextTimer
  ELSE UNCHANGED pollVars

\* The interval callback after its await: stop on a terminal status.
StopIfTerminal(status) ==
  IF status \in Terminal
  THEN /\ timers' = StoppedTimers
       /\ pollIntervalRef' = Null
       /\ nextTimer' = nextTimer
  ELSE UNCHANGED pollVars

\* -------------------------------------------------------------- loadAudioFile
\* localStorage has no currentAudio: router.push('/'), return (finally runs).
LoadNoStoredAudio ==
  /\ mounted
  /\ loadPc = "start"
  /\ loadPc' = "done"
  /\ loadingAudio' = SetState(FALSE, loadingAudio)
  /\ lastEvent' = Other("loadNoStored")
  /\ UNCHANGED viewVars
  /\ UNCHANGED offPlayerVars
  /\ UNCHANGED <<mounted, audio, error, currentTime, localVars, pollVars,
                 reqs, nextReq, retryVars, serverVars, appliedVars>>

\* audioAPI.getAudio(audioData.id) is sent.
LoadGetAudio ==
  /\ mounted
  /\ loadPc = "start"
  /\ loadPc' = "getAudio"
  /\ lastEvent' = Other("loadGetAudio")
  /\ UNCHANGED viewVars
  /\ UNCHANGED offPlayerVars
  /\ UNCHANGED <<pageVars, localVars, pollVars, reqs, nextReq, retryVars,
                 serverVars, appliedVars>>

\* getAudio rejected, or answered without a url: the catch block.
LoadAudioFailed ==
  /\ loadPc = "getAudio"
  /\ loadPc' = "done"
  /\ error' = SetState(TRUE, error)
  /\ loadingAudio' = SetState(FALSE, loadingAudio)
  /\ lastEvent' = Other("loadAudioFailed")
  /\ UNCHANGED viewVars
  /\ UNCHANGED offPlayerVars
  /\ UNCHANGED <<mounted, audio, currentTime, localVars, pollVars, reqs,
                 nextReq, retryVars, serverVars, appliedVars>>

\* getAudio answered with a url: setAudio, then loadTranscript is awaited.
LoadAudioOk ==
  /\ loadPc = "getAudio"
  /\ nextReq < MaxReq
  /\ loadPc' = "getTranscript"
  /\ audio' = SetState(TRUE, audio)
  /\ IssueRequest("load", Null)
  /\ lastEvent' = Other("loadAudioOk")
  /\ UNCHANGED viewVars
  /\ UNCHANGED offPlayerVars
  /\ UNCHANGED <<mounted, loadingAudio, error, currentTime, localVars,
                 pollVars, retryVars, serverVars, appliedVars>>

\* The service answers request r with the state it holds at that moment.
Respond(r) ==
  /\ r.ans.kind = "none"
  /\ reqs' = (reqs \ {r}) \cup {[r EXCEPT !.ans = Answer]}
  /\ lastEvent' = Other("respond")
  /\ UNCHANGED viewVars
  /\ UNCHANGED offPlayerVars
  /\ UNCHANGED <<pageVars, loadPc, localVars, pollVars, nextReq, retryVars,
                 serverVars, appliedVars>>

\* loadAudioFile resumes with the status loadTranscript returned.
LoadTranscriptDone(r) ==
  /\ r.src = "load" /\ r.ans.kind = "ok"
  /\ reqs' = reqs \ {r}
  /\ ApplyObservation(r)
  /\ IF r.ans.status \in {"uploaded", "processing"}
     THEN startPolling
     ELSE UNCHANGED pollVars
  /\ loadingAudio' = SetState(FALSE, loadingAudio)
  /\ loadPc' = "done"
  /\ lastEvent' = Event("loadDone", r.id, r.ans.status, FALSE)
  /\ UNCHANGED viewVars
  /\ UNCHANGED offPlayerVars
  /\ UNCHANGED <<mounted, audio, error, currentTime, nextReq, retryVars,
                 serverVars>>

\* loadTranscript caught an error and returned null to loadAudioFile.
LoadTranscriptFailed(r) ==
  /\ r.src = "load"
  /\ reqs' = reqs \ {r}
  /\ loadingAudio' = SetState(FALSE, loadingAudio)
  /\ loadPc' = "done"
  /\ lastEvent' = Other("loadFailed")
  /\ UNCHANGED viewVars
  /\ UNCHANGED offPlayerVars
  /\ UNCHANGED <<mounted, audio, error, currentTime, localVars, pollVars,
                 nextReq, retryVars, serverVars, appliedVars>>

\* ------------------------------------------------------- the interval callback
\* Timer t fires: the callback calls loadTranscript, which sends the fetch.
Tick(t) ==
  /\ t \in timers
  /\ nextReq < MaxReq
  /\ IssueRequest("tick", t)
  /\ lastEvent' = Other("tick")
  /\ UNCHANGED viewVars
  /\ UNCHANGED offPlayerVars
  /\ UNCHANGED <<pageVars, loadPc, localVars, pollVars, retryVars,
                 serverVars, appliedVars>>

\* The callback resumes with the status loadTranscript returned.
TickDone(r) ==
  /\ r.src = "tick" /\ r.ans.kind = "ok"
  /\ reqs' = reqs \ {r}
  /\ ApplyObservation(r)
  /\ StopIfTerminal(r.ans.status)
  /\ lastEvent' = Event("tickDone", r.id, r.ans.status, pollIntervalRef \in timers)
  /\ UNCHANGED viewVars
  /\ UNCHANGED offPlayerVars
  /\ UNCHANGED <<pageVars, loadPc, nextReq, retryVars, serverVars>>

\* loadTranscript caught an error and returned null to the callback.
TickFailed(r) ==
  /\ r.src = "tick"
  /\ reqs' = reqs \ {r}
  /\ StopIfTerminal("none")
  /\ lastEvent' = Event("tickFailed", 0, "none", pollIntervalRef \in timers)
  /\ UNCHANGED viewVars
  /\ UNCHANGED offPlayerVars
  /\ UNCHANGED <<pageVars, loadPc, localVars, nextReq, retryVars,
                 serverVars, appliedVars>>

\* ------------------------------------------------ handleRetryTranscription
\* The retry button is clicked: retryTranscription(audio.id) is sent.
RetryClick ==
  /\ RetryButtonShown
  /\ retryClicks < MaxRetry
  /\ retryClicks' = retryClicks + 1
  /\ retries' = [retries EXCEPT !.pending = @ + 1]
  /\ lastEvent' = Other("retryClick")
  /\ UNCHANGED viewVars
  /\ UNCHANGED offPlayerVars
  /\ UNCHANGED <<pageVars, loadPc, localVars, pollVars, reqs, nextReq,
                 serverVars, appliedVars>>

\* The service takes a retry request: a failed item is re-enqueued, any
\* other item is left as it is.
RetryServer ==
  /\ retries.pending > 0
  /\ retries' = [pending |-> retries.pending - 1,
                 accepted |-> retries.accepted + 1]
  /\ IF serverStatus = "failed"
     THEN serverStatus' = "processing" /\ serverWords' = <<>>
     ELSE UNCHANGED serverVars
  /\ lastEvent' = Other("retryServer")
  /\ UNCHANGED viewVars
  /\ UNCHANGED offPlayerVars
  /\ UNCHANGED <<pageVars, loadPc, localVars, pollVars, reqs, nextReq,
                 retryClicks, appliedVars>>

RetryDoneKeepsWords ==
  /\ retries.accepted > 0
  /\ retries' = [retries EXCEPT !.accepted = @ - 1]
  /\ transcriptStatus' = SetState("processing", transcriptStatus)
  /\ transcriptWords' = transcriptWords
  /\ startPolling
  /\ lastEvent' = Event("retryDone", 0, "none", pollIntervalRef \in timers)
  /\ UNCHANGED viewVars
  /\ UNCHANGED offPlayerVars
  /\ UNCHANGED <<pageVars, loadPc, reqs, nextReq, retryClicks, serverVars,
                 appliedVars>>

\* The await resolved: reset the local mirror and start a poll.
RetryDone ==
  /\ retries.accepted > 0
  /\ retries' = [retries EXCEPT !.accepted = @ - 1]
  /\ transcriptStatus' = SetState("processing", transcriptStatus)
  /\ transcriptWords' = SetState(<<>>, transcriptWords)
  /\ startPolling
  /\ lastEvent' = Event("retryDone", 0, "none", pollIntervalRef \in timers)
  /\ UNCHANGED viewVars
  /\ UNCHANGED offPlayerVars
  /\ UNCHANGED <<pageVars, loadPc, reqs, nextReq, retryClicks, serverVars,
                 appliedVars>>

RetryFailedStartsPoll ==
  /\ \/ /\ retries.pending > 0
        /\ retries' = [retries EXCEPT !.pending = @ - 1]
     \/ /\ retries.accepted > 0
        /\ retries' = [retries EXCEPT !.accepted = @ - 1]
  /\ transcriptStatus' = SetState("processing", transcriptStatus)
  /\ transcriptWords' = SetState(<<>>, transcriptWords)
  /\ startPolling
  /\ lastEvent' = Other("retryFailed")
  /\ UNCHANGED viewVars
  /\ UNCHANGED offPlayerVars
  /\ UNCHANGED <<pageVars, loadPc, reqs, nextReq, retryClicks, serverVars,
                 appliedVars>>

\* The await rejected (request refused or lost, or response lost): silent.
RetryFailed ==
  /\ \/ /\ retries.pending > 0
        /\ retries' = [retries EXCEPT !.pending = @ - 1]
     \/ /\ retries.accepted > 0
        /\ retries' = [retries EXCEPT !.accepted = @ - 1]
  /\ lastEvent' = Other("retryFailed")
  /\ UNCHANGED viewVars
  /\ UNCHANGED offPlayerVars
  /\ UNCHANGED <<pageVars, loadPc, localVars, pollVars, reqs, nextReq,
                 retryClicks, serverVars, appliedVars>>

\* ------------------------------------------------------------------ teardown
\* The cleanup of the unmount effect: the timer is cleared, the ref is kept.
UnmountTimers ==
  IF pollIntervalRef # Null THEN timers \ {pollIntervalRef} ELSE timers

Unmount ==
  /\ mounted
  /\ mounted' = FALSE
  /\ timers' = UnmountTimers
  /\ lastEvent' = Other("unmount")
  /\ UNCHANGED viewVars
  /\ UNCHANGED offPlayerVars
  /\ UNCHANGED <<loadPc, audio, loadingAudio, error, currentTime, localVars,
                 pollIntervalRef, nextTimer, reqs, nextReq, retryVars,
                 serverVars, appliedVars>>

\* ------------------------------------------------------------ handleTimeUpdate
\* TranscriptView's effect on [activeWordIndex, autoScroll]: when a
\* dependency changed and auto-follow is on, an active word that is outside
\* the container is scrolled into view; whether it is outside is the layout's.
ScrollEffect(newIndex, newAuto) ==
  IF /\ (newIndex # activeWordIndex \/ newAuto # autoScroll)
     /\ newAuto /\ TokensRendered /\ newIndex # None
  THEN scrollPending' \in {scrollPending, TRUE}
  ELSE scrollPending' = scrollPending

playerVars == <<mounted, loadPc, audio, loadingAudio, error, localVars,
                pollVars, reqs, nextReq, retryVars, serverVars, appliedVars,
                offPlayerVars>>

\* The engine's audioprocess event: AudioPlayer reports the playback time.
handleTimeUpdate(time) ==
  /\ PageShown
  /\ duration > 0
  /\ time # currentTime
  /\ currentTime' = time
  /\ enginePos' = time
  /\ ScrollEffect(FindIndex(transcriptWords, time), autoScroll)
  /\ lastEvent' = Other("timeUpdate")
  /\ UNCHANGED <<playerVars, autoScroll, duration, seekTarget>>

\* The engine's ready event: the duration is known from now on.
PlayerReady ==
  /\ PageShown
  /\ duration = 0
  /\ duration' = AudioDuration
  /\ lastEvent' = Other("ready")
  /\ UNCHANGED <<playerVars, currentTime, autoScroll, enginePos,
                 scrollPending, seekTarget>>

\* AudioPlayer's seekTo, reached through PlayerPage's handleWordClick: the
\* time the page displays after it.
SeekTime(time) == IF duration > 0 THEN time ELSE currentTime

\* A word is clicked: TranscriptView's handleWordClick(word.start).
handleWordClick(k) ==
  /\ TokensRendered
  /\ k \in 1..Len(transcriptWords)
  /\ autoScroll' = TRUE
  /\ seekTarget' = transcriptWords[k].start
  /\ enginePos' = IF duration > 0 THEN transcriptWords[k].start ELSE enginePos
  /\ currentTime' = SeekTime(transcriptWords[k].start)
  /\ ScrollEffect(FindIndex(transcriptWords,
                            SeekTime(transcriptWords[k].start)), TRUE)
  /\ lastEvent' = Event("seek", 0, "none", FALSE)
  /\ UNCHANGED <<playerVars, duration>>

\* The user scrolls the transcript: handleScroll.
ManualScroll ==
  /\ TokensRendered
  /\ autoScroll' = FALSE
  /\ lastEvent' = Event("manualScroll", 0, "none", FALSE)
  /\ UNCHANGED <<playerVars, currentTime, duration, enginePos, scrollPending,
                 seekTarget>>

\* The scroll event of the view's own scrollIntoView reaches handleScroll.
ScrollIntoViewEvent ==
  /\ TokensRendered
  /\ scrollPending
  /\ scrollPending' = FALSE
  /\ autoScroll' = FALSE
  /\ lastEvent' = Event("scrollIntoViewEvent", 0, "none", FALSE)
  /\ UNCHANGED <<playerVars, currentTime, duration, enginePos, seekTarget>>

\* The auto-scroll button: setAutoScroll(!autoScroll).
ToggleAutoScroll ==
  /\ TokensRendered
  /\ autoScroll' = ~autoScroll
  /\ ScrollEffect(activeWordIndex, ~autoScroll)
  /\ lastEvent' = Event("toggle", 0, "none", FALSE)
  /\ UNCHANGED <<playerVars, currentTime, duration, enginePos, seekTarget>>

\* ------------------------------------------------- the service's lifecycle
ServerStart ==
  /\ serverStatus = "uploaded"
  /\ serverStatus' = "processing"
  /\ lastEvent' = Other("server")
  /\ UNCHANGED viewVars
  /\ UNCHANGED offPlayerVars
  /\ UNCHANGED <<pageVars, loadPc, localVars, pollVars, reqs, nextReq,
                 retryVars, serverWords, appliedVars>>

ServerComplete(words) ==
  /\ serverStatus = "processing"
  /\ serverStatus' = "completed"
  /\ serverWords' = words
  /\ lastEvent' = Other("server")
  /\ UNCHANGED viewVars
  /\ UNCHANGED offPlayerVars
  /\ UNCHANGED <<pageVars, loadPc, localVars, pollVars, reqs, nextReq,
                 retryVars, appliedVars>>

ServerFail ==
  /\ serverStatus = "processing"
  /\ serverStatus' = "failed"
  /\ lastEvent' = Other("server")
  /\ UNCHANGED viewVars
  /\ UNCHANGED offPlayerVars
  /\ UNCHANGED <<pageVars, loadPc, localVars, pollVars, reqs, nextReq,
                 retryVars, serverWords, appliedVars>>

\* ------------------------------------------------------------ specification
Next ==
  \/ LoadNoStoredAudio
  \/ LoadGetAudio
  \/ LoadAudioFailed
  \/ LoadAudioOk
  \/ \E r \in reqs : Respond(r)
  \/ \E r \in reqs : LoadTranscriptDone(r)
  \/ \E r \in reqs : LoadTranscriptFailed(r)
  \/ \E t \in timers : Tick(t)
  \/ \E r \in reqs : TickDone(r)
  \/ \E r \in reqs : TickFailed(r)
  \/ RetryClick
  \/ RetryServer
  \/ RetryDone
  \/ RetryFailed
  \/ Unmount
  \/ ServerStart
  \/ \E words \in ServerTranscripts : ServerComplete(words)
  \/ ServerFail

Spec == Init /\ [][Next]_vars

\* The transcript view alone: the page shows a completed transcript of any
\* shape the service may have sent, and playback reports times.
InitView ==
  /\ mounted = TRUE
  /\ loadPc = "done"
  /\ audio = TRUE
  /\ loadingAudio = FALSE
  /\ error = FALSE
  /\ transcriptWords \in WordSeqs
  /\ transcriptStatus = "completed"
  /\ currentTime = 0
  /\ pollIntervalRef = Null
  /\ timers = {}
  /\ nextTimer = 0
  /\ reqs = {}
  /\ nextReq = 1
  /\ retries = [pending |-> 0, accepted |-> 0]
  /\ retryClicks = 0
  /\ serverStatus = "completed"
  /\ serverWords = transcriptWords
  /\ autoScroll = FALSE
  /\ duration = AudioDuration
  /\ enginePos = 0
  /\ scrollPending = FALSE
  /\ seekTarget = None
  /\ SearchIdle
  /\ HomeIdle
  /\ AuthIdle
  /\ ApiIdle
  /\ lastEvent = Event("loadDone", 1, "completed", FALSE)
  /\ maxApplied = 1

NextView == \E time \in PlayTimes : handleTimeUpdate(time)

SpecView == InitView /\ [][NextView]_vars

\* The page shows a completed transcript, auto-follow is on and the audio is
\* still being decoded; the user plays, clicks words, scrolls and toggles.
InitFollow ==
  /\ mounted = TRUE
  /\ loadPc = "done"
  /\ audio = TRUE
  /\ loadingAudio = FALSE
  /\ error = FALSE
  /\ transcriptWords \in ServerTranscripts
  /\ transcriptStatus = "completed"
  /\ currentTime = 0
  /\ pollIntervalRef = Null
  /\ timers = {}
  /\ nextTimer = 0
  /\ reqs = {}
  /\ nextReq = 1
  /\ retries = [pending |-> 0, accepted |-> 0]
  /\ retryClicks = 0
  /\ serverStatus = "completed"
  /\ serverWords = transcriptWords
  /\ autoScroll = TRUE
  /\ duration = 0
  /\ enginePos = 0
  /\ scrollPending = FALSE
  /\ seekTarget = None
  /\ SearchIdle
  /\ HomeIdle
  /\ AuthIdle
  /\ ApiIdle
  /\ lastEvent = Event("loadDone", 1, "completed", FALSE)
  /\ maxApplied = 1

NextFollow ==
  \/ PlayerReady
  \/ \E time \in PlayTimes : handleTimeUpdate(time)
  \/ \E k \in 1..Len(transcriptWords) : handleWordClick(k)
  \/ ManualScroll
  \/ ScrollIntoViewEvent
  \/ ToggleAutoScroll

SpecFollow == InitFollow /\ [][NextFollow]_vars

\* The whole player page: the poller and the view's handlers together, for
\* fewer fetches and retries than the poller alone.
NextMirror ==
  \/ Next /\ nextReq' <= MirrorReq /\ retryClicks' <= MirrorRetry
  \/ NextFollow

SpecMirror == Init /\ [][NextMirror]_vars

\* ---------------------------------------------------- SearchPage: strings
\* A string is the sequence of its characters.
Lower(c) == IF c = "A" THEN "a" ELSE IF c = "B" THEN "b" ELSE c
toLowerCase(str) == [k \in 1..Len(str) |-> Lower(str[k])]

\* String.prototype.includes
includes(hay, needle) ==
  \E k \in 0..(Len(hay) - Len(needle)) :
    SubSeq(hay, k + 1, k + Len(needle)) = needle

\* !searchQuery.trim(): nothing but white space.
Blank(str) == \A k \in 1..Len(str) : str[k] = " "

\* contextWindow.join(' ')
join(texts) ==
  LET RECURSIVE cat(_)
      cat(t) == IF Len(t) = 0 THEN <<>>
                ELSE IF Len(t) = 1 THEN t[1]
                ELSE t[1] \o <<" ">> \o cat(Tail(t))
  IN  cat(texts)

Max(a, b) == IF a >= b THEN a ELSE b
Min(a, b) == IF a <= b THEN a ELSE b

WindowBefore == 5
WindowEnd == 6
SkipAhead == 5
MatchCap == 3

contextWindowShort(words, i) ==
  LET lo == Max(0, i - WindowBefore)
      hi == Min(Len(words), i + WindowBefore)
  IN  [j \in 1..(hi - lo) |-> words[lo + j].word]

\* The inner loop: words[j].word for j from max(0, i-5) while j < min(len, i+6).
contextWindow(words, i) ==
  LET lo == Max(0, i - WindowBefore)
      hi == Min(Len(words), i + WindowEnd)
  IN  [j \in 1..(hi - lo) |-> words[lo + j].word]

startWordAtMatch(words, i) == words[i + 1]

\* const startWord = words[Math.max(0, i - 5)]
startWord(words, i) == words[Max(0, i - WindowBefore) + 1]

sliceLast(matches) ==
  SubSeq(matches, Max(1, Len(matches) - MatchCap + 1), Len(matches))

\* matches.slice(0, 3)
slice(matches) == SubSeq(matches, 1, Min(MatchCap, Len(matches)))

nextIndexSkipOnly(i) == i + SkipAhead

\* i += 5 in the body, then the loop's own i++: the index tested after a
\* match at i.
nextIndex(i) == (i + SkipAhead) + 1

\* The scan loop from index i on; query is already lower-cased.  tested is
\* the history of the indices the loop body ran for, index that of a match.
scan(words, query, from) ==
  LET RECURSIVE loop(_, _)
      loop(i, acc) ==
        IF i >= Len(words) THEN acc
        ELSE LET contextText == join(contextWindow(words, i))
             IN  IF includes(toLowerCase(contextText), query)
                 THEN loop(nextIndex(i),
                           [matches |-> Append(acc.matches,
                              [index |-> i, text |-> contextText,
                               startTime |-> startWord(words, i).start]),
                            tested |-> Append(acc.tested, i)])
                 ELSE loop(i + 1, [acc EXCEPT !.tested = Append(@, i)])
  IN  loop(from, NoScan)

\* ------------------------------------------------------ SearchPage: inputs
SearchWord(text, position) == [word |-> text, start |-> position]

\* A transcript of n words at 1-second increments: "a" at position p, "Ab"
\* at position q, "b" everywhere else (position 0: nowhere).
Transcript(n, p, q) ==
  [j \in 1..n |->
     SearchWord(IF j = p THEN <<"a">>
                ELSE IF j = q THEN <<"A", "b">> ELSE <<"b">>, j - 1)]

ScanTranscripts ==
  {Transcript(n, pq[1], pq[2]) :
     n \in 0..MaxWords, pq \in (0..MaxWords) \X (0..MaxWords)}

Queries == {<<"a">>, <<"A">>, <<"a", "b">>, <<"a", " ", "b">>, <<"b">>,
            <<" ">>}

\* What getTranscript may answer for a listed file.
FileAnswers ==
  [status : Status \ {"completed"}, transcript : {FALSE}, words : {<<>>}]
  \cup [status : {"completed"}, transcript : {FALSE}, words : {<<>>}]
  \cup [status : {"completed"}, transcript : {TRUE},
        words : {Transcript(1, 0, 0), Transcript(2, 1, 0)}]

\* The player page is not in use.
PlayerAbsent ==
  /\ mounted = FALSE
  /\ loadPc = "done"
  /\ audio = FALSE
  /\ loadingAudio = TRUE
  /\ error = FALSE
  /\ transcriptWords = <<>>
  /\ transcriptStatus = "uploaded"
  /\ currentTime = 0
  /\ pollIntervalRef = Null
  /\ timers = {}
  /\ nextTimer = 0
  /\ reqs = {}
  /\ nextReq = 0
  /\ retries = [pending |-> 0, accepted |-> 0]
  /\ retryClicks = 0
  /\ serverStatus = "uploaded"
  /\ serverWords = <<>>
  /\ autoScroll = TRUE
  /\ duration = 0
  /\ enginePos = 0
  /\ scrollPending = FALSE
  /\ seekTarget = None
  /\ lastEvent = Other("init")
  /\ maxApplied = 0

\* The search page with its file list loaded and a query typed: either one
\* completed file with a transcript of any drawn shape, or up to MaxFiles
\* files in any listed status with any answer.
InitSearch ==
  /\ PlayerAbsent
  /\ HomeIdle
  /\ AuthIdle
  /\ ApiIdle
  /\ searchQuery \in Queries
  /\ \/ /\ audioFiles = <<[id |-> 1, status |-> "completed"]>>
        /\ serverFiles \in
             {<<[status |-> "completed", transcript |-> TRUE, words |-> w]>> :
                w \in ScanTranscripts}
     \/ \E n \in 0..MaxFiles :
          /\ audioFiles \in
               {[k \in 1..n |-> [id |-> k, status |-> st[k]]] :
                  st \in [1..n -> Status]}
          /\ serverFiles \in [1..n -> FileAnswers]
  /\ searchPc = "idle"
  /\ searchIdx = 0
  /\ results = <<>>
  /\ searchResults = <<>>
  /\ searching = FALSE
  /\ hasSearched = FALSE
  /\ failedFetches = {}
  /\ scanLog = NoScan

pageVars2 == <<mounted, loadPc, audio, loadingAudio, error, localVars,
               pollVars, reqs, nextReq, retryVars, serverVars, appliedVars,
               currentTime, viewVars, lastEvent, homeVars, authVars, apiVars>>

\* ------------------------------------------------- SearchPage: performSearch
completedFilesUnfiltered == audioFiles

\* audioFiles.filter(f => f.status === 'completed')
completedFiles ==
  SelectSeq(audioFiles, LAMBDA f : f.status = "completed")

\* The loop moves on with the results so far; past the last file
\* setSearchResults(results) and setSearching(false) run.
NextFile(newResults) ==
  /\ results' = newResults
  /\ searchIdx' = searchIdx + 1
  /\ IF searchIdx + 1 >= Len(completedFiles)
     THEN /\ searchResults' = newResults
          /\ searching' = FALSE
          /\ searchPc' = "done"
     ELSE UNCHANGED <<searchResults, searching, searchPc>>

\* The form is submitted: the part of performSearch before its first await.
performSearch ==
  /\ ~searching
  /\ searchPc \in {"idle", "done"}
  /\ ~Blank(searchQuery)
  /\ hasSearched' = TRUE
  /\ failedFetches' = {}
  /\ scanLog' = NoScan
  /\ results' = <<>>
  /\ searchIdx' = 0
  /\ IF Len(completedFiles) = 0
     THEN /\ searchResults' = <<>>
          /\ searching' = FALSE
          /\ searchPc' = "done"
     ELSE /\ searchResults' = searchResults
          /\ searching' = TRUE
          /\ searchPc' = "fetch"
  /\ UNCHANGED <<audioFiles, serverFiles, searchQuery, pageVars2>>

\* if (response.status === 'completed' && response.transcript): the scan
\* of the words with the lower-cased query, else nothing.
scanResponse(response) ==
  IF response.status = "completed" /\ response.transcript
  THEN scan(response.words, toLowerCase(searchQuery), 0)
  ELSE NoScan

\* if (matches.length > 0) results.push(...): the entry of one file, if any.
fileResult(file, matches) ==
  IF Len(matches) > 0
  THEN <<[audioId |-> file.id, matches |-> slice(matches)]>>
  ELSE <<>>

\* getTranscript(file.id) of the current file answered.
SearchFetchDone ==
  /\ searchPc = "fetch"
  /\ LET file == completedFiles[searchIdx + 1]
     IN  /\ scanLog' = scanResponse(serverFiles[file.id])
         /\ NextFile(results \o fileResult(file, scanLog'.matches))
  /\ UNCHANGED <<audioFiles, serverFiles, searchQuery, hasSearched,
                 failedFetches, pageVars2>>

SearchFetchFailedAborts ==
  /\ searchPc = "fetch"
  /\ failedFetches' = failedFetches \cup {completedFiles[searchIdx + 1].id}
  /\ searchIdx' = searchIdx + 1
  /\ searchResults' = results
  /\ searching' = FALSE
  /\ searchPc' = "done"
  /\ UNCHANGED <<audioFiles, serverFiles, searchQuery, hasSearched, results,
                 scanLog, pageVars2>>

\* getTranscript(file.id) of the current file rejected: the empty catch.
SearchFetchFailed ==
  /\ searchPc = "fetch"
  /\ failedFetches' = failedFetches \cup {completedFiles[searchIdx + 1].id}
  /\ NextFile(results)
  /\ UNCHANGED <<audioFiles, serverFiles, searchQuery, hasSearched,
                 scanLog, pageVars2>>

NextSearch ==
  \/ performSearch
  \/ SearchFetchDone
  \/ SearchFetchFailed

SpecSearch == InitSearch /\ [][NextSearch]_vars

\* --------------------------------------------------- Home: handleFilesSelected
SuccessClearDelay == 2000
FailureClearDelay == 5000

Progresses == {50, 100}

\* The progress entry of file k of batch b.
UploadingFile(b, k, st, pr, msg) ==
  [batch |-> b, idx |-> k, status |-> st, progress |-> pr, error |-> msg]

\* error.response?.data?.detail || error.message || 'Upload failed': the
\* message of the rejection caused by file k of batch b (0: by no file).
errorMessage(b, k) == <<"upload failed", b, k>>

homeAwayVars == <<mounted, loadPc, audio, loadingAudio, error, localVars,
                  pollVars, reqs, nextReq, retryVars, serverVars, appliedVars,
                  currentTime, viewVars, lastEvent, searchVars, authVars,
                  apiVars>>

\* showNotification(type, message)
showNotification(type, message) ==
  /\ notification' = [type |-> type, message |-> message]
  /\ notifyTimers' = notifyTimers + 1

\* Batches finished so far: the order in which the clearing timeouts are set.
finished == nextBatch - Cardinality(uploads)

\* n files are selected or dropped: the handler up to its await.
handleFilesSelected(n) ==
  /\ nextBatch < MaxBatches
  /\ nextBatch' = nextBatch + 1
  /\ uploadingFiles' =
       [k \in 1..n |-> UploadingFile(nextBatch + 1, k, "uploading", 0, "none")]
  /\ isUploading' = TRUE
  /\ uploads' = uploads \cup {[batch |-> nextBatch + 1, n |-> n]}
  /\ homeEvent' = HomeEvent("selected", nextBatch + 1, 0)
  /\ UNCHANGED <<libraryFiles, notification, clearTimers, notifyTimers,
                 homeAwayVars>>

\* onUploadProgress of request u: every file index of the batch gets the
\* progress, in whatever list uploadingFiles holds by then.
onUploadProgress(u, progress) ==
  /\ u \in uploads
  /\ uploadingFiles' =
       [i \in 1..Len(uploadingFiles) |->
          IF i <= u.n THEN [uploadingFiles[i] EXCEPT !.progress = progress]
          ELSE uploadingFiles[i]]
  /\ uploadingFiles' # uploadingFiles
  /\ homeEvent' = HomeEvent("other", 0, 0)
  /\ UNCHANGED <<isUploading, libraryFiles, notification, uploads,
                 clearTimers, notifyTimers, nextBatch, homeAwayVars>>

\* uploadAudio of request u resolved: the rest of the try block, finally.
UploadDone(u) ==
  /\ u \in uploads
  /\ uploads' = uploads \ {u}
  /\ uploadingFiles' =
       [i \in 1..Len(uploadingFiles) |->
          [uploadingFiles[i] EXCEPT !.status = "success", !.progress = 100]]
  /\ libraryFiles' = [k \in 1..u.n |-> <<u.batch, k>>] \o libraryFiles
  /\ showNotification("success", <<"uploaded", u.n>>)
  /\ clearTimers' = clearTimers \cup
       {[batch |-> u.batch, seq |-> finished + 1, delay |-> SuccessClearDelay]}
  /\ isUploading' = FALSE
  /\ homeEvent' = HomeEvent("uploadDone", u.batch, 0)
  /\ UNCHANGED <<nextBatch, homeAwayVars>>

\* uploadAudio of request u rejected because of its file k (0: of none):
\* the catch block, finally.
UploadFailed(u, k) ==
  /\ u \in uploads
  /\ k \in 0..u.n
  /\ uploads' = uploads \ {u}
  /\ uploadingFiles' =
       [i \in 1..Len(uploadingFiles) |->
          [uploadingFiles[i] EXCEPT !.status = "error",
                                    !.error = errorMessage(u.batch, k)]]
  /\ showNotification("error", errorMessage(u.batch, k))
  /\ clearTimers' = clearTimers \cup
       {[batch |-> u.batch, seq |-> finished + 1, delay |-> FailureClearDelay]}
  /\ isUploading' = FALSE
  /\ homeEvent' = HomeEvent("uploadFailed", u.batch, k)
  /\ UNCHANGED <<libraryFiles, nextBatch, homeAwayVars>>

\* The timeout t set after a batch fires: setUploadingFiles([]).  A timeout
\* set earlier with no longer a delay fires first.
ClearTimerFires(t) ==
  /\ t \in clearTimers
  /\ \A o \in clearTimers : ~(o.seq < t.seq /\ o.delay <= t.delay)
  /\ clearTimers' = clearTimers \ {t}
  /\ uploadingFiles' = <<>>
  /\ homeEvent' = HomeEvent("clear", t.batch, 0)
  /\ UNCHANGED <<isUploading, libraryFiles, notification, uploads,
                 notifyTimers, nextBatch, homeAwayVars>>

\* A timeout of showNotification fires: setNotification(null).
NotifyTimerFires ==
  /\ notifyTimers > 0
  /\ notifyTimers' = notifyTimers - 1
  /\ notification' = NoNotification
  /\ homeEvent' = HomeEvent("other", 0, 0)
  /\ UNCHANGED <<uploadingFiles, isUploading, libraryFiles, uploads,
                 clearTimers, nextBatch, homeAwayVars>>

\* The home page of an authenticated user with an empty library.
InitUpload ==
  /\ PlayerAbsent
  /\ SearchIdle
  /\ HomeIdle
  /\ AuthIdle
  /\ ApiIdle

NextUpload ==
  \/ \E n \in 1..MaxBatchFiles : handleFilesSelected(n)
  \/ \E u \in uploads : \E progress \in Progresses :
       onUploadProgress(u, progress)
  \/ \E u \in uploads : UploadDone(u)
  \/ \E u \in uploads : \E k \in 0..MaxBatchFiles : UploadFailed(u, k)
  \/ \E t \in clearTimers : ClearTimerFires(t)
  \/ NotifyTimerFires

SpecUpload == InitUpload /\ [][NextUpload]_vars

\* ----------------------------------------------- authService.getCurrentUser
CACHE_DURATION == 5000
ClockStep == CACHE_DURATION \div 2

authAwayVars == <<mounted, loadPc, audio, loadingAudio, error, localVars,
                  pollVars, reqs, nextReq, retryVars, serverVars, appliedVars,
                  currentTime, viewVars, lastEvent, searchVars, homeVars,
                  apiVars>>

\* currentUserCache && (now - currentUserCache.timestamp) < CACHE_DURATION
CacheFresh ==
  /\ currentUserCache # NoCache
  /\ (now - currentUserCache.timestamp) < CACHE_DURATION

\* The /auth requests in flight after request old (Null: none) is consumed
\* and a request of the kind is sent for the flight.  epoch is the number
\* of logouts completed when it is sent (history).
SendAuth(old, kind, flight) ==
  /\ nextAuthReq' = nextAuthReq + 1
  /\ authReqs' = {r \in authReqs : r.id # old} \cup
       {[id |-> nextAuthReq + 1, kind |-> kind, flight |-> flight,
         ans |-> "none", epoch |-> logoutsDone]}

ConsumeAuth(old) ==
  /\ nextAuthReq' = nextAuthReq
  /\ authReqs' = {r \in authReqs : r.id # old}

JoinsInFlightNever == FALSE

\* if (currentUserPromise) return currentUserPromise
JoinsInFlight == currentUserPromise # Null

\* checkAuth after its await: setUser(userData), or setUser(null) in catch.
UserAfter(result) == IF result = "error" THEN "none" ELSE result

\* Call c of getCurrentUser (made by checkAuth): from the cache, joining the
\* promise in flight, or starting the async body up to its first await.
getCurrentUser(c) ==
  /\ callers[c].pc = "idle"
  /\ \A b \in 1..(c - 1) : callers[b].pc # "idle"
  /\ IF CacheFresh
     THEN /\ callers' = [callers EXCEPT ![c] =
               [pc |-> "done", promise |-> Null,
                result |-> currentUserCache.data]]
          /\ user' = currentUserCache.data
          /\ UNCHANGED <<currentUserPromise, flights, authReqs, nextAuthReq,
                         nextPromise>>
     ELSE IF JoinsInFlight
     THEN /\ callers' = [callers EXCEPT ![c] =
               [pc |-> "waiting", promise |-> currentUserPromise,
                result |-> "none"]]
          /\ UNCHANGED <<user, currentUserPromise, flights, authReqs,
                         nextAuthReq, nextPromise>>
     ELSE /\ nextPromise' = nextPromise + 1
          /\ currentUserPromise' = nextPromise + 1
          /\ flights' = flights \cup {[p |-> nextPromise + 1, pc |-> "me1"]}
          /\ SendAuth(Null, "me", nextPromise + 1)
          /\ callers' = [callers EXCEPT ![c] =
               [pc |-> "waiting", promise |-> nextPromise + 1,
                result |-> "none"]]
          /\ user' = user
  /\ UNCHANGED <<currentUserCache, isRefreshing, now, settled, logoutPc,
                 logoutsDone, sessionUser, accessValid, authAwayVars>>

\* The async body of promise p ends with the result: finally clears the
\* marker, the promise settles and every caller awaiting it resumes.
Settle(p, result) ==
  /\ flights' = {f \in flights : f.p # p}
  /\ currentUserPromise' = Null
  /\ settled' = [settled EXCEPT ![p] = result]
  /\ callers' = [c \in 1..MaxCalls |->
       IF callers[c].pc = "waiting" /\ callers[c].promise = p
       THEN [pc |-> "done", promise |-> p, result |-> result]
       ELSE callers[c]]
  /\ user' = IF \E c \in 1..MaxCalls :
                 callers[c].pc = "waiting" /\ callers[c].promise = p
             THEN UserAfter(result) ELSE user

FlightPc(p) == (CHOOSE f \in flights : f.p = p).pc

\* A GET /auth/me of the body answered 200: the cache is filled.
MeResolved(r) ==
  /\ r.kind = "me"
  /\ r.ans \notin {"none", "401", "fail"}
  /\ currentUserCache' =
       [data |-> r.ans, timestamp |-> now, epoch |-> r.epoch]
  /\ ConsumeAuth(r.id)
  /\ Settle(r.flight, r.ans)
  /\ UNCHANGED <<isRefreshing, now, nextPromise, logoutPc, logoutsDone,
                 sessionUser, accessValid, authAwayVars>>

\* A GET /auth/me of the body rejected: the first one refreshes on a 401
\* unless a refresh is under way, the second one gives up.
MeRejected(r) ==
  /\ r.kind = "me"
  /\ r.ans \in {"401", "fail"}
  /\ IF FlightPc(r.flight) = "me1" /\ r.ans = "401" /\ ~isRefreshing
     THEN /\ isRefreshing' = TRUE
          /\ currentUserCache' = NoCache
          /\ SendAuth(r.id, "refresh", r.flight)
          /\ flights' = {f \in flights : f.p # r.flight}
                          \cup {[p |-> r.flight, pc |-> "refresh"]}
          /\ UNCHANGED <<currentUserPromise, callers, settled, user>>
     ELSE /\ isRefreshing' = IF FlightPc(r.flight) = "me2" THEN FALSE
                             ELSE isRefreshing
          /\ ConsumeAuth(r.id)
          /\ Settle(r.flight, "error")
          /\ UNCHANGED currentUserCache
  /\ UNCHANGED <<now, nextPromise, logoutPc, logoutsDone, sessionUser,
                 accessValid, authAwayVars>>

\* POST /auth/refresh of the body answered: GET /auth/me is sent again.
RefreshResolved(r) ==
  /\ r.kind = "refresh"
  /\ r.flight # Null
  /\ r.ans = "ok"
  /\ isRefreshing' = FALSE
  /\ SendAuth(r.id, "me", r.flight)
  /\ flights' = {f \in flights : f.p # r.flight}
                  \cup {[p |-> r.flight, pc |-> "me2"]}
  /\ UNCHANGED <<currentUserCache, currentUserPromise, now, nextPromise,
                 callers, settled, user, logoutPc, logoutsDone, sessionUser,
                 accessValid, authAwayVars>>

\* POST /auth/refresh of the body rejected: the inner catch.
RefreshRejected(r) ==
  /\ r.kind = "refresh"
  /\ r.flight # Null
  /\ r.ans \in {"401", "fail"}
  /\ isRefreshing' = FALSE
  /\ ConsumeAuth(r.id)
  /\ Settle(r.flight, "error")
  /\ UNCHANGED <<currentUserCache, now, nextPromise, logoutPc, logoutsDone,
                 sessionUser, accessValid, authAwayVars>>

\* ------------------------------------------------------ AuthProvider: logout
\* The signed-in user logs out: authService.logout() up to its await.
LogoutStart ==
  /\ user # "none"
  /\ logoutPc = "idle"
  /\ logoutsDone < MaxLogouts
  /\ logoutPc' = "posting"
  /\ currentUserCache' = NoCache
  /\ SendAuth(Null, "logout", Null)
  /\ UNCHANGED <<currentUserPromise, isRefreshing, now, flights, nextPromise,
                 callers, settled, user, logoutsDone, sessionUser,
                 accessValid, authAwayVars>>

\* POST /auth/logout answered or rejected (the error is ignored):
\* setUser(null), clearCache(), router.push('/login').
LogoutFinish(r) ==
  /\ r.kind = "logout"
  /\ r.ans # "none"
  /\ logoutPc' = "idle"
  /\ logoutsDone' = logoutsDone + 1
  /\ user' = "none"
  /\ currentUserCache' = NoCache
  /\ ConsumeAuth(r.id)
  /\ UNCHANGED <<currentUserPromise, isRefreshing, now, flights, nextPromise,
                 callers, settled, sessionUser, accessValid, authAwayVars>>

\* --------------------------------------------------------- the auth service
authClientVars == <<currentUserCache, currentUserPromise, isRefreshing, now,
                    flights, nextAuthReq, nextPromise, callers, settled, user,
                    logoutPc, logoutsDone>>

\* The service takes request r and answers from the session it holds.
AuthServe(r) ==
  /\ r.ans = "none"
  /\ LET answer ==
           IF r.kind = "me"
           THEN IF sessionUser # "none" /\ accessValid THEN sessionUser
                ELSE "401"
           ELSE IF r.kind = "refresh"
           THEN IF sessionUser # "none" THEN "ok" ELSE "401"
           ELSE "ok"
     IN  authReqs' = (authReqs \ {r}) \cup {[r EXCEPT !.ans = answer]}
  /\ sessionUser' = IF r.kind = "logout" THEN "none" ELSE sessionUser
  /\ accessValid' = IF r.kind = "refresh" THEN sessionUser # "none"
                    ELSE IF r.kind = "logout" THEN FALSE ELSE accessValid
  /\ UNCHANGED <<authClientVars, authAwayVars>>

\* Request r or its response is lost.
AuthNetworkError(r) ==
  /\ r.ans = "none"
  /\ authReqs' = (authReqs \ {r}) \cup {[r EXCEPT !.ans = "fail"]}
  /\ UNCHANGED <<authClientVars, sessionUser, accessValid, authAwayVars>>

\* The access token of the session expires.
AccessExpires ==
  /\ accessValid
  /\ accessValid' = FALSE
  /\ UNCHANGED <<authClientVars, authReqs, sessionUser, authAwayVars>>

\* Somebody signs in after the logout.
SignIn ==
  /\ sessionUser = "none"
  /\ logoutsDone > 0
  /\ sessionUser' = "u2"
  /\ accessValid' = TRUE
  /\ UNCHANGED <<authClientVars, authReqs, authAwayVars>>

\* Time passes.
ClockAdvances ==
  /\ now < MaxClock * ClockStep
  /\ now' = now + ClockStep
  /\ UNCHANGED <<currentUserCache, currentUserPromise, isRefreshing, flights,
                 authReqs, nextAuthReq, nextPromise, callers, settled, user,
                 logoutPc, logoutsDone, sessionUser, accessValid,
                 authAwayVars>>

\* The provider has mounted; a session may exist, its token may have expired.
InitAuth ==
  /\ PlayerAbsent
  /\ SearchIdle
  /\ HomeIdle
  /\ ApiIdle
  /\ AuthLoaded
  /\ sessionUser \in {"none", "u1"}
  /\ accessValid \in (IF sessionUser = "none" THEN {FALSE} ELSE BOOLEAN)

NextAuth ==
  \/ \E c \in 1..MaxCalls : getCurrentUser(c)
  \/ \E r \in authReqs : MeResolved(r)
  \/ \E r \in authReqs : MeRejected(r)
  \/ \E r \in authReqs : RefreshResolved(r)
  \/ \E r \in authReqs : RefreshRejected(r)
  \/ LogoutStart
  \/ \E r \in authReqs : LogoutFinish(r)
  \/ \E r \in authReqs : AuthServe(r)
  \/ \E r \in authReqs : AuthNetworkError(r)
  \/ AccessExpires
  \/ SignIn
  \/ ClockAdvances

SpecAuth == InitAuth /\ [][NextAuth]_vars

\* -------------------------------------- api.ts: the response interceptor
apiAwayVars == <<mounted, loadPc, audio, loadingAudio, error, localVars,
                 pollVars, reqs, nextReq, retryVars, serverVars, appliedVars,
                 currentTime, viewVars, lastEvent, searchVars, homeVars,
                 authClientVars, authReqs>>

RetryMarkForgotten == FALSE

\* originalRequest._retry = true
RetryMark == TRUE

\* A caller makes request c through axiosInstance.
ApiSend(c) ==
  /\ ~redirected
  /\ apiCalls[c].pc = "idle"
  /\ \A b \in 1..(c - 1) : apiCalls[b].pc # "idle"
  /\ apiCalls' = [apiCalls EXCEPT ![c].pc = "sent", ![c].sends = 1]
  /\ UNCHANGED <<redirected, sessionUser, accessValid, apiAwayVars>>

\* The service answers what call c has outstanding: its request, or the
\* POST /auth/refresh made for it.
ApiServe(c) ==
  /\ apiCalls[c].pc \in {"sent", "resent", "refreshing"}
  /\ apiCalls[c].ans = "none"
  /\ IF apiCalls[c].pc = "refreshing"
     THEN /\ apiCalls' = [apiCalls EXCEPT ![c].ans =
               IF sessionUser # "none" THEN "ok" ELSE "401"]
          /\ accessValid' = (sessionUser # "none")
     ELSE /\ apiCalls' = [apiCalls EXCEPT ![c].ans =
               IF sessionUser # "none" /\ accessValid THEN "200" ELSE "401"]
          /\ accessValid' = accessValid
  /\ UNCHANGED <<redirected, sessionUser, apiAwayVars>>

\* What call c has outstanding fails without a 401 (network, 5xx).
ApiOtherError(c) ==
  /\ apiCalls[c].pc \in {"sent", "resent", "refreshing"}
  /\ apiCalls[c].ans = "none"
  /\ apiCalls' = [apiCalls EXCEPT ![c].ans = "fail"]
  /\ UNCHANGED <<redirected, sessionUser, accessValid, apiAwayVars>>

\* (response) => response
ResponseOk(c) ==
  /\ apiCalls[c].pc \in {"sent", "resent"}
  /\ apiCalls[c].ans = "200"
  /\ apiCalls' = [apiCalls EXCEPT ![c].pc = "resolved"]
  /\ UNCHANGED <<redirected, sessionUser, accessValid, apiAwayVars>>

\* async (error) => ...: a 401 of a request not marked _retry marks it and
\* posts /auth/refresh, any other error is rejected.
ResponseError(c) ==
  /\ apiCalls[c].pc \in {"sent", "resent"}
  /\ apiCalls[c].ans \in {"401", "fail"}
  /\ IF apiCalls[c].ans = "401" /\ ~apiCalls[c].retry
     THEN /\ apiCalls[c].refreshes < MaxRefresh
          /\ apiCalls' = [apiCalls EXCEPT ![c].retry = RetryMark,
                                            ![c].pc = "refreshing",
                                            ![c].ans = "none",
                                            ![c].refreshes = @ + 1]
     ELSE apiCalls' = [apiCalls EXCEPT ![c].pc = "rejected"]
  /\ UNCHANGED <<redirected, sessionUser, accessValid, apiAwayVars>>

\* The refresh succeeded: return axiosInstance(originalRequest).
RefreshDone(c) ==
  /\ apiCalls[c].pc = "refreshing"
  /\ apiCalls[c].ans = "ok"
  /\ apiCalls' = [apiCalls EXCEPT ![c].pc = "resent", ![c].ans = "none",
                                    ![c].sends = @ + 1]
  /\ UNCHANGED <<redirected, sessionUser, accessValid, apiAwayVars>>

\* The refresh failed: window.location.href = '/login', reject.
RefreshFailed(c) ==
  /\ apiCalls[c].pc = "refreshing"
  /\ apiCalls[c].ans \in {"401", "fail"}
  /\ apiCalls' = [apiCalls EXCEPT ![c].pc = "rejected",
                                    ![c].refreshFailed = TRUE]
  /\ redirected' = TRUE
  /\ UNCHANGED <<sessionUser, accessValid, apiAwayVars>>

\* The access token of the session expires, or the session ends.
SessionLapses ==
  /\ \/ accessValid /\ accessValid' = FALSE /\ sessionUser' = sessionUser
     \/ /\ sessionUser # "none"
        /\ sessionUser' = "none"
        /\ accessValid' = FALSE
  /\ UNCHANGED <<apiVars, apiAwayVars>>

\* The client as loaded; a session may exist, its token may have expired.
InitApi ==
  /\ PlayerAbsent
  /\ SearchIdle
  /\ HomeIdle
  /\ AuthLoaded
  /\ ApiIdle
  /\ sessionUser \in {"none", "u1"}
  /\ accessValid \in (IF sessionUser = "none" THEN {FALSE} ELSE BOOLEAN)

NextApi ==
  \/ \E c \in 1..MaxApiCalls : ApiSend(c)
  \/ \E c \in 1..MaxApiCalls : ApiServe(c)
  \/ \E c \in 1..MaxApiCalls : ApiOtherError(c)
  \/ \E c \in 1..MaxApiCalls : ResponseOk(c)
  \/ \E c \in 1..MaxApiCalls : ResponseError(c)
  \/ \E c \in 1..MaxApiCalls : RefreshDone(c)
  \/ \E c \in 1..MaxApiCalls : RefreshFailed(c)
  \/ SessionLapses

SpecApi == InitApi /\ [][NextApi]_vars

TypeOK ==
  /\ transcriptStatus \in Status
  /\ serverStatus \in Status
  /\ pollIntervalRef \in 0..nextTimer
  /\ timers \subseteq 1..nextTimer
  /\ nextReq \in 0..MaxReq
  /\ \A r \in reqs : r.id \in 1..nextReq
  /\ searchPc \in {"idle", "fetch", "done"}
  /\ searchIdx \in 0..Len(audioFiles)
  /\ searching \in BOOLEAN
  /\ hasSearched \in BOOLEAN
  /\ failedFetches \subseteq 1..Len(audioFiles)
  /\ Len(results) <= Len(audioFiles)
  /\ Len(searchResults) <= Len(audioFiles)

\* ===================================================================== claims
Sorted(words) ==
  \A i \in 1..(Len(words) - 1) : words[i].start <= words[i + 1].start

\* The window contract of the locator for the 0-based index i.
InWindow(words, time, i) ==
  /\ i \in 0..(Len(words) - 1)
  /\ words[i + 1].start <= time
  /\ (i = Len(words) - 1 \/ time < words[i + 2].start)

\* C1: for a non-empty token sequence sorted by start and a time not before
\* the first start, the active index is the one and only index whose window
\* holds the time, also when several tokens share a start.
C1_LocateUniqueWindow ==
  (/\ Len(transcriptWords) > 0
   /\ Sorted(transcriptWords)
   /\ currentTime >= transcriptWords[1].start)
  => /\ InWindow(transcriptWords, currentTime, activeWordIndex)
     /\ \A j \in 0..(Len(transcriptWords) - 1) :
          InWindow(transcriptWords, currentTime, j) => j = activeWordIndex

C1_Witness ==
  /\ Len(transcriptWords) = 3
  /\ Sorted(transcriptWords)
  /\ transcriptWords[1].start = transcriptWords[2].start
  /\ transcriptWords[2].start < transcriptWords[3].start
  /\ currentTime = 1
  /\ currentTime = transcriptWords[1].start
  /\ activeWordIndex = 1

\* C2 as stated: for a non-empty token sequence and a time before the first
\* start, the active index is 0.
C2_BeforeFirstIsZero ==
  (Len(transcriptWords) > 0 /\ currentTime < transcriptWords[1].start)
  => activeWordIndex = 0

\* C2 amended: for a non-empty token sequence and a time before the first
\* start, the active index is never 0, and it is none (-1) when the sequence
\* is sorted by start.
C2_BeforeFirstIsNone ==
  (Len(transcriptWords) > 0 /\ currentTime < transcriptWords[1].start)
  => /\ activeWordIndex # 0
     /\ Sorted(transcriptWords) => activeWordIndex = None

C2_Witness ==
  /\ Len(transcriptWords) = 2
  /\ Sorted(transcriptWords)
  /\ currentTime = -1
  /\ currentTime < transcriptWords[1].start
  /\ activeWordIndex = None

\* C3: on an empty token sequence the active index is none (-1) at any time.
C3_EmptyIsNone ==
  Len(transcriptWords) = 0 => activeWordIndex = None

C3_Witness ==
  /\ Len(transcriptWords) = 0
  /\ currentTime = MaxTime
  /\ activeWordIndex = None

WellFormed(words) ==
  /\ Sorted(words)
  /\ \A i \in 1..Len(words) : words[i].start <= words[i].end
  /\ \A i \in 1..(Len(words) - 1) : words[i].end <= words[i + 1].start

\* C4: with well-formed tokens, when token k covers the playback time in
\* [start, end), the view renders the tokens and highlights exactly k.
C4_CoveringTokenIsActive ==
  \A k \in 1..Len(transcriptWords) :
    (/\ WellFormed(transcriptWords)
     /\ transcriptWords[k].start <= currentTime
     /\ currentTime < transcriptWords[k].end)
    => TokensRendered /\ activeWordIndex = k - 1

C4_Witness ==
  /\ Len(transcriptWords) = 3
  /\ WellFormed(transcriptWords)
  /\ currentTime = 1
  /\ transcriptWords[2].start <= currentTime
  /\ currentTime < transcriptWords[2].end
  /\ transcriptWords[1].start = transcriptWords[1].end
  /\ TokensRendered
  /\ activeWordIndex = 1

\* C5 as stated: every change of the local transcriptStatus is one of
\* uploaded -> processing, processing -> completed, processing -> failed, or
\* failed -> processing made by the retry handler.
C5_LegalTransitions ==
  [][transcriptStatus' # transcriptStatus =>
       \/ <<transcriptStatus, transcriptStatus'>> \in
            {<<"uploaded", "processing">>, <<"processing", "completed">>,
             <<"processing", "failed">>}
       \/ /\ transcriptStatus = "failed"
          /\ transcriptStatus' = "processing"
          /\ lastEvent'.kind = "retryDone"]_vars

\* C6: tokens are rendered only while the local status is completed; with
\* any other status the view shows a panel, whatever the stored tokens are.
C6_TokensOnlyWhenCompleted ==
  TokensRendered => transcriptStatus = "completed"

C6_Witness ==
  /\ PageShown
  /\ transcriptStatus = "failed"
  /\ Len(transcriptWords) > 0
  /\ ~TokensRendered

\* C7: when a tick's fetch observes completed or failed, the step that
\* applies it leaves no interval timer active and the handle null; and a
\* tick issues a status fetch only while a timer set by startPolling is
\* active.
C7_StopsOnTerminal ==
  [][/\ (lastEvent'.kind = "tickDone" /\ lastEvent'.obs \in Terminal)
          => (timers' = {} /\ pollIntervalRef' = Null)
     /\ \A r \in reqs' :
          (r.id > nextReq /\ r.src = "tick") => timers # {}]_vars

C7_Witness ==
  /\ lastEvent.kind = "tickDone"
  /\ lastEvent.obs \in Terminal
  /\ lastEvent.active
  /\ timers = {}
  /\ pollIntervalRef = Null

\* C8: a tick whose fetch fails changes neither the local status nor the
\* tokens, and leaves the handle and the active timer as they were, so the
\* timer fires again.
C8_FailedTickSkipped ==
  [][lastEvent'.kind = "tickFailed" =>
       /\ UNCHANGED <<transcriptStatus, transcriptWords>>
       /\ UNCHANGED <<pollIntervalRef, timers>>]_vars

C8_Witness ==
  /\ lastEvent.kind = "tickFailed"
  /\ lastEvent.active
  /\ pollIntervalRef \in timers
  /\ transcriptStatus = "processing"

\* C9: at most one interval timer of the page is active at any time.
C9_AtMostOneTimer ==
  Cardinality(timers) <= 1

C9_Witness ==
  /\ lastEvent.kind = "retryDone"
  /\ lastEvent.active
  /\ Cardinality(timers) = 1
  /\ pollIntervalRef \in timers

\* C10 as stated: the response of an earlier-issued request that arrives
\* after the observation of a later-issued request was applied does not
\* overwrite the local status or tokens.
C10_StaleResponseDiscarded ==
  [][(/\ lastEvent'.kind \in {"loadDone", "tickDone"}
      /\ lastEvent'.req < maxApplied)
     => UNCHANGED <<transcriptStatus, transcriptWords>>]_vars

\* C11 as stated: once the interval that sent a request has been stopped
\* (by the automatic stop, by a new startPolling or by teardown), the
\* response of that request is not applied to the local status or tokens.
C11_NoObservationAfterStop ==
  [][\A r \in reqs \ reqs' :
       (r.src = "tick" /\ r.timer \notin timers)
       => UNCHANGED <<transcriptStatus, transcriptWords>>]_vars

\* C12 as stated: once the page is torn down no interval timer of the page is
\* active, whatever loadAudioFile or a retry was awaiting at that moment.
C12_NoTimerAfterTeardown ==
  ~mounted => timers = {}

\* C13: a successful retry on the mounted page leaves the local status
\* processing, the stored tokens empty and the timer of pollIntervalRef
\* active; and tokens become visible only in a step that applies a completed
\* observation.
C13_RetryResets ==
  [][/\ (lastEvent'.kind = "retryDone" /\ mounted)
          => /\ transcriptStatus' = "processing"
             /\ transcriptWords' = <<>>
             /\ pollIntervalRef' \in timers'
     /\ (~TokensRendered /\ TokensRendered')
          => /\ lastEvent'.kind \in {"loadDone", "tickDone"}
             /\ lastEvent'.obs = "completed"]_vars

C13_Witness ==
  /\ lastEvent.kind = "retryDone"
  /\ mounted
  /\ transcriptStatus = "processing"
  /\ transcriptWords = <<>>
  /\ pollIntervalRef \in timers
  /\ ~TokensRendered

\* The one-file case of the search page: a single completed file whose
\* transcript was fetched and scanned.
Scanned ==
  /\ searchPc = "done"
  /\ Len(audioFiles) = 1
  /\ audioFiles[1].status = "completed"
  /\ serverFiles[1].status = "completed"
  /\ serverFiles[1].transcript
  /\ failedFetches = {}

scannedWords == serverFiles[1].words
scanned == scanLog

\* The matches kept of the one file ( <<>> when it has no results entry).
keptMatches ==
  IF Len(searchResults) = 0 THEN <<>> ELSE searchResults[1].matches

\* Offset of part k in a text made of the parts with one separator between
\* neighbours.
PartOffset(parts, k) ==
  LET RECURSIVE sum(_)
      sum(n) == IF n = 0 THEN 0 ELSE sum(n - 1) + Len(parts[n]) + 1
  IN  sum(k - 1)

\* text is the parts in order with exactly one space between neighbours.
JoinedBySingleSpaces(parts, text) ==
  /\ Len(text) = IF Len(parts) = 0 THEN 0
                 ELSE PartOffset(parts, Len(parts) + 1) - 1
  /\ \A k \in 1..Len(parts) :
       /\ SubSeq(text, PartOffset(parts, k) + 1,
                 PartOffset(parts, k) + Len(parts[k])) = parts[k]
       /\ k < Len(parts) => text[PartOffset(parts, k + 1)] = " "

\* Tokens lo..hi inclusive (0-based) of words.
TokensInclusive(words, lo, hi) ==
  [j \in 1..(hi - lo + 1) |-> words[lo + j].word]

\* C14: for every scan index i that is tested, the window is tokens
\* max(0,i-5) .. min(len-1,i+5) inclusive, at most 11 of them, joined by
\* single spaces, and i is recorded as a match iff the lower-cased query is
\* a substring of the lower-cased window; the first recorded matches are the
\* ones shown.
C14_WindowAndMatch ==
  Scanned =>
    /\ \A k \in 1..Len(scanned.tested) :
         LET i == scanned.tested[k]
             tokens == TokensInclusive(scannedWords, Max(0, i - 5),
                                       Min(Len(scannedWords) - 1, i + 5))
             text == join(contextWindow(scannedWords, i))
         IN  /\ Len(tokens) <= 11
             /\ JoinedBySingleSpaces(tokens, text)
             /\ (\E m \in 1..Len(scanned.matches) :
                    scanned.matches[m].index = i)
                 <=> includes(toLowerCase(text), toLowerCase(searchQuery))
             /\ \A m \in 1..Len(scanned.matches) :
                  scanned.matches[m].index = i
                    => scanned.matches[m].text = text
    /\ \A m \in 1..Len(keptMatches) : keptMatches[m] = scanned.matches[m]

\* A two-token query in other case than the transcript's matches across a
\* token boundary in a full window of 11 tokens, index 0 does not match.
C14_Witness ==
  /\ Scanned
  /\ searchQuery = <<"a", "b">>
  /\ Len(scannedWords) = 19
  /\ scannedWords[12].word = <<"A", "b">>
  /\ Len(keptMatches) = 2
  /\ keptMatches[1].index = 6
  /\ Len(keptMatches[1].text) = 22
  /\ scanned.tested = <<0, 1, 2, 3, 4, 5, 6, 12, 18>>

\* C15: an item shows at most 3 matches, and they are the first 3 found in
\* scan order (all of them when fewer were found).
C15_FirstThreeMatches ==
  /\ \A k \in 1..Len(searchResults) : Len(searchResults[k].matches) <= 3
  /\ Scanned =>
       /\ Len(keptMatches) = Min(3, Len(scanned.matches))
       /\ \A m \in 1..Len(keptMatches) : keptMatches[m] = scanned.matches[m]

\* Five matching positions, the earliest three shown.
C15_Witness ==
  /\ Scanned
  /\ Len(scanned.matches) = 5
  /\ Len(keptMatches) = 3
  /\ keptMatches[1].index = 0
  /\ keptMatches[2].index = 6
  /\ keptMatches[3].index = 12

\* C16: the startTime of a match recorded at scan index i is the start of
\* token max(0,i-5), the window's first token; a query matching only token 0
\* of a 12-token transcript yields the window of tokens 0..5 with the start
\* of token 0.
C16_StartOfWindow ==
  Scanned =>
    /\ \A m \in 1..Len(keptMatches) :
         keptMatches[m].startTime
           = scannedWords[Max(0, keptMatches[m].index - 5) + 1].start
    /\ (/\ Len(scannedWords) = 12
        /\ \A j \in 1..12 :
             includes(toLowerCase(scannedWords[j].word),
                      toLowerCase(searchQuery)) <=> j = 1)
       => /\ Len(keptMatches) >= 1
          /\ keptMatches[1].index = 0
          /\ keptMatches[1].text
               = join(TokensInclusive(scannedWords, 0, 5))
          /\ keptMatches[1].startTime = scannedWords[1].start

\* The 12-token example.
C16_Witness ==
  /\ Scanned
  /\ Len(scannedWords) = 12
  /\ searchQuery = <<"a">>
  /\ scannedWords[1].word = <<"a">>
  /\ \A j \in 2..12 : scannedWords[j].word = <<"b">>
  /\ Len(keptMatches) = 1
  /\ keptMatches[1].index = 0
  /\ keptMatches[1].startTime = 0
  /\ Len(keptMatches[1].text) = 11

\* The response of file id is one the scan runs on and finds the query in.
WouldMatch(id) ==
  /\ serverFiles[id].status = "completed"
  /\ serverFiles[id].transcript
  /\ Len(scanResponse(serverFiles[id]).matches) > 0

\* Every entry of rs comes from a file listed completed whose response is
\* completed with a transcript, and the entries are in list order, one per
\* file at most.
OnlyCompletedInOrder(rs) ==
  \A k \in 1..Len(rs) :
    LET id == rs[k].audioId
    IN  /\ id \in 1..Len(audioFiles)
        /\ audioFiles[id].status = "completed"
        /\ serverFiles[id].status = "completed"
        /\ serverFiles[id].transcript
        /\ Len(rs[k].matches) > 0
        /\ \A j \in 1..(k - 1) : rs[j].audioId < id

\* C17: results come only from files listed Completed whose fetched response
\* is Completed with a transcript present; files listed Uploaded, Processing
\* or Failed never contribute; the entries are in scan order, one per file at
\* most.
C17_OnlyCompletedFiles ==
  /\ OnlyCompletedInOrder(results)
  /\ OnlyCompletedInOrder(searchResults)

\* A file listed processing whose transcript is there and holds the query is
\* left out, the completed file after it is found.
C17_Witness ==
  /\ searchPc = "done"
  /\ Len(audioFiles) = 2
  /\ audioFiles[1].status = "processing"
  /\ WouldMatch(1)
  /\ audioFiles[2].status = "completed"
  /\ Len(searchResults) = 1
  /\ searchResults[1].audioId = 2

\* What the completed files whose fetch did not fail yield, in list order.
ExpectedResults ==
  LET RECURSIVE upTo(_)
      upTo(k) ==
        IF k = 0 THEN <<>>
        ELSE LET file == completedFiles[k]
             IN  upTo(k - 1) \o
                 (IF file.id \in failedFetches THEN <<>>
                  ELSE fileResult(file,
                                  scanResponse(serverFiles[file.id]).matches))
  IN  upTo(Len(completedFiles))

\* C18: a failed fetch skips its file only: the search goes on with the files
\* after it, a finished search shows the matches of every completed file
\* whose fetch did not fail, and searching is true only while a fetch of the
\* search is outstanding, false once the search is over.
C18_FailedFetchSkipsOneFile ==
  /\ searching <=> searchPc = "fetch"
  /\ searchPc = "fetch" => searchIdx < Len(completedFiles)
  /\ failedFetches \subseteq {completedFiles[k].id : k \in 1..searchIdx}
  /\ searchPc = "done" =>
       /\ ~searching
       /\ hasSearched => searchIdx = Len(completedFiles)
       /\ searchResults = ExpectedResults

\* The fetch of the first of two completed files failed, the second file's
\* matches are shown.
C18_Witness ==
  /\ searchPc = "done"
  /\ ~searching
  /\ Len(audioFiles) = 2
  /\ audioFiles[1].status = "completed"
  /\ audioFiles[2].status = "completed"
  /\ failedFetches = {1}
  /\ WouldMatch(1)
  /\ Len(searchResults) = 1
  /\ searchResults[1].audioId = 2

\* C19 as stated: right after a word click auto-follow is on, the playback
\* engine is at the clicked word's start and the page displays that time,
\* whether or not the duration is known yet.
C19_SeekHasThreeEffects ==
  lastEvent.kind = "seek"
  => /\ autoScroll
     /\ enginePos = seekTarget
     /\ currentTime = seekTarget

\* C20 as stated: auto-follow goes off only by a manual scroll (or the
\* toggle), never by a playback-time update or by the scroll event of the
\* view's own scrollIntoView, and comes back on only by the toggle or a seek.
C20_AutoFollowOnlyManual ==
  [][/\ (autoScroll /\ ~autoScroll')
          => lastEvent'.kind \in {"manualScroll", "toggle"}
     /\ (~autoScroll /\ autoScroll')
          => lastEvent'.kind \in {"toggle", "seek"}]_vars

\* C21 as stated: when the upload of a batch fails because of one of its
\* files, only that file's entry has status error, with that file's message,
\* and the other files of the batch are marked success and are in the
\* library list.
C21_UploadFailurePerFile ==
  (homeEvent.kind = "uploadFailed" /\ homeEvent.file > 0) =>
    \A i \in 1..Len(uploadingFiles) :
      uploadingFiles[i].batch = homeEvent.batch =>
        IF uploadingFiles[i].idx = homeEvent.file
        THEN /\ uploadingFiles[i].status = "error"
             /\ uploadingFiles[i].error
                  = errorMessage(homeEvent.batch, homeEvent.file)
        ELSE /\ uploadingFiles[i].status = "success"
             /\ \E k \in 1..Len(libraryFiles) :
                  libraryFiles[k] = <<homeEvent.batch, uploadingFiles[i].idx>>

\* C30 as stated: while a batch is in progress its progress list does not
\* become empty.
C30_ProgressStaysWhileUploading ==
  [][(isUploading /\ isUploading' /\ uploadingFiles # <<>>)
       => uploadingFiles' # <<>>]_vars

\* C22 as stated: whenever the transcript view shows a loading panel, a
\* polling timer is active or a status fetch is in flight.
C22_NoSilentLoading ==
  (PageShown /\ ViewPanel \in {"transcribing", "preparing"})
  => (timers # {} \/ reqs # {})

\* C27 as stated: the active polling timer of the page is stopped by a tick
\* only when the tick's request was issued by that timer, hence after the
\* retry that started it, and observed Completed or Failed.
C27_StaleTerminalKeepsPoll ==
  [][(/\ pollIntervalRef \in timers
      /\ pollIntervalRef \notin timers'
      /\ lastEvent'.kind = "tickDone")
     => \E r \in reqs :
          /\ r.id = lastEvent'.req
          /\ r.timer = pollIntervalRef
          /\ r.ans.status \in Terminal]_vars

\* i is the index of a recorded match of the scan.
MatchedAt(i) ==
  \E m \in 1..Len(scanned.matches) : scanned.matches[m].index = i

\* C23 as stated: the index tested next after a match at i is i+5.
C23_NextTestedIsFiveOn ==
  Scanned =>
    \A k \in 1..(Len(scanned.tested) - 1) :
      MatchedAt(scanned.tested[k])
        => scanned.tested[k + 1] = scanned.tested[k] + 5

\* C23 amended: the index tested next after a match at i is i+6 (the 5 of
\* the skip and the 1 of the loop), and the scan ends with that match when
\* i+6 is past the last token; after an index that does not match the next
\* one is tested.
C23_NextTestedIsSixOn ==
  Scanned =>
    /\ \A k \in 1..(Len(scanned.tested) - 1) :
         scanned.tested[k + 1]
           = IF MatchedAt(scanned.tested[k]) THEN scanned.tested[k] + 6
             ELSE scanned.tested[k] + 1
    /\ Len(scanned.tested) > 0 =>
         LET last == scanned.tested[Len(scanned.tested)]
         IN  IF MatchedAt(last) THEN last + 6 >= Len(scannedWords)
             ELSE last + 1 = Len(scannedWords)
    /\ Len(scannedWords) > 0 =>
         (Len(scanned.tested) > 0 /\ scanned.tested[1] = 0)

\* Eight tokens, the query in token 0 only: indices 0, 6 and 7 are tested.
C23_Witness ==
  /\ Scanned
  /\ Len(scannedWords) = 8
  /\ searchQuery = <<"a">>
  /\ scanned.tested = <<0, 6, 7>>
  /\ MatchedAt(0)
  /\ ~MatchedAt(6)

\* C24 as stated: a query without a space that is in exactly one token of
\* the transcript yields exactly one match.
C24_OneOccurrenceOneMatch ==
  (/\ Scanned
   /\ \A k \in 1..Len(searchQuery) : searchQuery[k] # " "
   /\ Cardinality({j \in 1..Len(scannedWords) :
                     includes(toLowerCase(scannedWords[j].word),
                              toLowerCase(searchQuery))}) = 1)
  => /\ Len(scanned.matches) = 1
     /\ Len(keptMatches) = 1

\* C25: the local status and token sequence change only in the step that
\* consumes a successful status fetch or a successful retry request, and a
\* polling timer is created only in such a step; failed fetches, failed
\* retries, time updates, seeks, scrolls and toggles leave them alone.
C25_PassiveMirror ==
  [][/\ (transcriptStatus' # transcriptStatus
          \/ transcriptWords' # transcriptWords)
          => lastEvent'.kind \in {"loadDone", "tickDone", "retryDone"}
     /\ ~(timers' \subseteq timers)
          => lastEvent'.kind \in {"loadDone", "retryDone"}
     /\ lastEvent'.kind \in {"tickFailed", "seek", "manualScroll",
                              "scrollIntoViewEvent", "toggle", "other"}
          => UNCHANGED <<transcriptStatus, transcriptWords, nextTimer>>]_vars

\* The one retry of a failed item was rejected: the view still shows Failed
\* and no poll was ever started.
C25_Witness ==
  /\ PageShown
  /\ transcriptStatus = "failed"
  /\ retryClicks = 1
  /\ retries = [pending |-> 0, accepted |-> 0]
  /\ nextTimer = 0
  /\ timers = {}

\* C26: at most one /auth/me request of getCurrentUser is in flight and at
\* most one body is running; every caller that waits, waits on the promise
\* of the marker; a caller that got its result from a promise got the result
\* that promise settled with; and the marker is null exactly when no body is
\* running, after a success and after an error.
C26_SingleFlight ==
  /\ Cardinality({r \in authReqs : r.kind = "me"}) <= 1
  /\ Cardinality(flights) <= 1
  /\ (currentUserPromise = Null) <=> (flights = {})
  /\ \A f \in flights : f.p = currentUserPromise
  /\ \A c \in 1..MaxCalls :
       /\ callers[c].pc = "waiting" =>
            (currentUserPromise # Null
             /\ callers[c].promise = currentUserPromise)
       /\ (callers[c].pc = "done" /\ callers[c].promise # Null) =>
            callers[c].result = settled[callers[c].promise]

\* Two concurrent callers were served by one request, which succeeded.
C26_Witness ==
  /\ nextPromise = 1
  /\ nextAuthReq = 1
  /\ currentUserPromise = Null
  /\ callers[1].pc = "done" /\ callers[1].promise = 1
  /\ callers[2].pc = "done" /\ callers[2].promise = 1
  /\ callers[1].result = "u1"
  /\ callers[2].result = "u1"

\* C28 as stated: once a logout has completed, the cache holds nothing that
\* a request sent before that logout completed has put there.
C28_NoCacheAfterLogout ==
  currentUserCache # NoCache => currentUserCache.epoch >= logoutsDone

\* C29: for one request the interceptor posts /auth/refresh at most once
\* and sends the request at most twice, the second time only after a 401 and
\* a successful refresh and marked _retry; a marked request that fails is
\* rejected; a failed refresh rejects and redirects to /login, and nothing
\* else redirects.
C29_RetriesAtMostOnce ==
  /\ \A c \in 1..MaxApiCalls :
       /\ apiCalls[c].refreshes <= 1
       /\ apiCalls[c].sends <= 2
       /\ apiCalls[c].refreshes = 1 <=> apiCalls[c].retry
       /\ apiCalls[c].sends = 2 =>
            (apiCalls[c].retry /\ ~apiCalls[c].refreshFailed)
       /\ apiCalls[c].pc = "resent" <=>
            (apiCalls[c].sends = 2
             /\ apiCalls[c].pc \notin {"resolved", "rejected"})
       /\ apiCalls[c].refreshFailed =>
            (apiCalls[c].pc = "rejected" /\ redirected)
  /\ redirected <=> \E c \in 1..MaxApiCalls : apiCalls[c].refreshFailed

\* A request got a 401, was re-sent after the refresh, got a 401 again and
\* was rejected without a second refresh or a redirect.
C29_Witness ==
  /\ apiCalls[1].pc = "rejected"
  /\ apiCalls[1].ans = "401"
  /\ apiCalls[1].sends = 2
  /\ apiCalls[1].refreshes = 1
  /\ ~redirected

====
